---- MODULE Spec2Model ----
(***************************************************************************)
(* A model of the parser of interpreter_rust (src/src/parser.rs), of the   *)
(* token model (src/src/token.rs) and of the AST rendering                 *)
(* (src/src/ast.rs).                                                       *)
(*                                                                         *)
(* The parser's fields are the variables lexer, cur_token, peek_token and  *)
(* errors; statements is program.statements of parse_program, stmt the     *)
(* local statement a let/return rule holds while it scans to the `;`, pc   *)
(* the control position inside parse_program, and out the string           *)
(* print_string returns for the parsed Program.                            *)
(***************************************************************************)
EXTENDS Integers, Sequences, FiniteSets, TLC

VARIABLES lexer, cur_token, peek_token, errors, statements, stmt, pc, out

vars == <<lexer, cur_token, peek_token, errors, statements, stmt, pc, out>>

(***************************************************************************)
(* Bounds of the model.                                                    *)
(***************************************************************************)
\* longest input drawn token by token from the alphabet
MaxLen == 4
\* most statements of an input built from whole statements
MaxStmts == 3
\* most statements of an AST built directly (as ast.rs's test does)
MaxAstLen == 2

(***************************************************************************)
(* Option<T>: None is the empty sequence, Some(v) the one-element one.     *)
(***************************************************************************)
None == <<>>

Some(v) == <<v>>

(***************************************************************************)
(* token.rs                                                                *)
(***************************************************************************)
Token(kind, literal) == [kind |-> kind, literal |-> literal]

TokenKind ==
    {"Illegal", "Eof", "Ident", "Int", "Assign", "Plus", "Minus", "Bang",
     "Asteriks", "Slash", "Lt", "Gt", "Comma", "Semicolon", "Lparen", "Rparen",
     "Lbrace", "Rbrace", "Function", "Let", "If", "Else", "Return", "True",
     "False"}

\* impl Display for TokenKind: what "{}" prints for a kind
Display(kind) ==
    CASE kind = "Minus" -> "-"
      [] kind = "Bang" -> "!"
      [] kind = "Asteriks" -> "*"
      [] kind = "Slash" -> "/"
      [] kind = "Lt" -> "<"
      [] kind = "Gt" -> ">"
      [] OTHER -> kind

\* the token a field holds before Parser::new has pulled anything
DefaultToken == Token("Illegal", "")

(***************************************************************************)
(* The scanner.  Its code is not among the sources; it is modelled from    *)
(* the specification's contract of next(): one token per call, in order,   *)
(* and EndOfFile with an empty literal on every call after the input is    *)
(* exhausted.  The input is kept as the sequence of tokens of the text.    *)
(***************************************************************************)
EofToken == Token("Eof", "")

Lexer_new(input) == [input |-> input, position |-> 0]

Lexer_next_token(l) ==
    IF l.position < Len(l.input)
    THEN [token |-> l.input[l.position + 1],
          lexer |-> [l EXCEPT !.position = @ + 1]]
    ELSE [token |-> EofToken, lexer |-> l]

(***************************************************************************)
(* parser.rs: the operations, as functions of the parser's fields p.       *)
(***************************************************************************)
\* the keys of prefix_parse_fns after Parser::new (register_prefix calls)
prefix_parse_fns == {"Ident"}

\* next_token with its two assignments in the other order: the lookahead is
\* overwritten before it is copied to cur_token
next_token_peek_first(p) ==
    LET r == Lexer_next_token(p.lexer)
    IN  [p EXCEPT !.cur_token = r.token,
                  !.peek_token = r.token,
                  !.lexer = r.lexer]

next_token(p) ==
    LET r == Lexer_next_token(p.lexer)
    IN  [p EXCEPT !.cur_token = p.peek_token,
                  !.peek_token = r.token,
                  !.lexer = r.lexer]

New(l) ==
    next_token(next_token([lexer |-> l,
                           cur_token |-> DefaultToken,
                           peek_token |-> DefaultToken,
                           errors |-> <<>>]))

peek_token_is(p, token_kind) == p.peek_token.kind = token_kind

cur_token_is(p, token_kind) == p.cur_token.kind = token_kind

peek_error(p, token_kind) ==
    [p EXCEPT !.errors =
        Append(@, "expected next token to be " \o Display(token_kind)
                  \o ", got " \o Display(p.peek_token.kind) \o " intead")]

\* returns the bool of the code as ok, and the parser as the call leaves it
expect_peek(p, token_kind) ==
    IF peek_token_is(p, token_kind)
    THEN [ok |-> TRUE, parser |-> next_token(p)]
    ELSE [ok |-> FALSE, parser |-> peek_error(p, token_kind)]

Identifier(token, value) ==
    [node |-> "IdentifierNode", token |-> token, value |-> value]

parse_identifier(p) ==
    [expression |-> Some(Identifier(p.cur_token, p.cur_token.literal)),
     parser |-> p]

parse_expression(p) ==
    IF p.cur_token.kind \in prefix_parse_fns
    THEN parse_identifier(p)
    ELSE [expression |-> None, parser |-> p]

LetStatement(token, name, value) ==
    [node |-> "Let", token |-> token, name |-> name, value |-> value]

ReturnStatement(token, ret_value) ==
    [node |-> "Return", token |-> token, ret_value |-> ret_value]

ExpressionStatement(token, expression) ==
    [node |-> "Expression", token |-> token, expression |-> expression]

\* parse_let_statement with stmt.name read before the first lookahead
\* assertion has advanced onto the identifier
parse_let_statement_name_early(p) ==
    LET r1 == expect_peek(p, "Ident")
        name == Identifier(p.cur_token, p.cur_token.literal)
        r2 == expect_peek(r1.parser, "Assign")
    IN  IF ~r1.ok
        THEN [entered |-> FALSE, statement |-> None, parser |-> r1.parser]
        ELSE IF ~r2.ok
        THEN [entered |-> FALSE, statement |-> None, parser |-> r2.parser]
        ELSE [entered |-> TRUE,
              statement |-> Some(LetStatement(p.cur_token, name, None)),
              parser |-> next_token(r2.parser)]

\* parse_let_statement up to its while loop (lines 101-117): entered is
\* FALSE when a lookahead assertion failed and the rule returned None
parse_let_statement(p) ==
    LET r1 == expect_peek(p, "Ident")
        name == Identifier(r1.parser.cur_token, r1.parser.cur_token.literal)
        r2 == expect_peek(r1.parser, "Assign")
    IN  IF ~r1.ok
        THEN [entered |-> FALSE, statement |-> None, parser |-> r1.parser]
        ELSE IF ~r2.ok
        THEN [entered |-> FALSE, statement |-> None, parser |-> r2.parser]
        ELSE [entered |-> TRUE,
              statement |-> Some(LetStatement(p.cur_token, name, None)),
              parser |-> next_token(r2.parser)]

\* parse_return_statement with stmt.token read after the next_token call
parse_return_statement_late_token(p) ==
    [statement |-> Some(ReturnStatement(next_token(p).cur_token, None)),
     parser |-> next_token(p)]

\* parse_return_statement up to its while loop (lines 128-132)
parse_return_statement(p) ==
    [statement |-> Some(ReturnStatement(p.cur_token, None)),
     parser |-> next_token(p)]

\* parse_expression_statement that leaves the trailing `;` unconsumed
parse_expression_statement_keep_semicolon(p) ==
    LET r == parse_expression(p)
        s == ExpressionStatement(p.cur_token, r.expression)
    IN  [statement |-> Some(s), parser |-> r.parser]

parse_expression_statement(p) ==
    LET r == parse_expression(p)
        s == ExpressionStatement(p.cur_token, r.expression)
    IN  [statement |-> Some(s),
         parser |-> IF peek_token_is(r.parser, "Semicolon")
                    THEN next_token(r.parser)
                    ELSE r.parser]

\* `if let Some(statement) = ... { program.statements.push(statement) }`
push_statement(stmts, option) ==
    IF option = None THEN stmts ELSE Append(stmts, option[1])

(***************************************************************************)
(* ast.rs: print_string                                                    *)
(***************************************************************************)
Identifier_print_string(ident) == ident.value

IntegerLiteral_print_string(int) == int.token.literal

ExpressionNode_print_string(e) ==
    IF e.node = "IdentifierNode"
    THEN Identifier_print_string(e)
    ELSE IntegerLiteral_print_string(e)

\* LetStatement::print_string without the closing `;`
LetStatement_print_string_no_semicolon(s) ==
    s.token.literal \o " " \o Identifier_print_string(s.name) \o " = "
    \o (IF s.value # None THEN ExpressionNode_print_string(s.value[1]) ELSE "")

LetStatement_print_string(s) ==
    s.token.literal \o " " \o Identifier_print_string(s.name) \o " = "
    \o (IF s.value # None THEN ExpressionNode_print_string(s.value[1]) ELSE "")
    \o ";"

ReturnStatement_print_string(s) ==
    s.token.literal \o " "
    \o (IF s.ret_value # None
        THEN ExpressionNode_print_string(s.ret_value[1]) ELSE "")
    \o ";"

ExpressionStatement_print_string(s) ==
    IF s.expression # None
    THEN ExpressionNode_print_string(s.expression[1])
    ELSE ""

StatementNode_print_string(s) ==
    CASE s.node = "Let" -> LetStatement_print_string(s)
      [] s.node = "Return" -> ReturnStatement_print_string(s)
      [] s.node = "Expression" -> ExpressionStatement_print_string(s)

RECURSIVE Program_print_string_from(_, _, _)
\* the for loop of Program::print_string, from statement i on, out so far
Program_print_string_from(stmts, i, acc) ==
    IF i > Len(stmts)
    THEN acc
    ELSE Program_print_string_from(
             stmts, i + 1, acc \o StatementNode_print_string(stmts[i]))

Program_print_string(stmts) == Program_print_string_from(stmts, 1, "")

(***************************************************************************)
(* The inputs: token sequences a scanner can produce.                      *)
(***************************************************************************)
LetTok == Token("Let", "let")

ReturnTok == Token("Return", "return")

AssignTok == Token("Assign", "=")

SemiTok == Token("Semicolon", ";")

IdentNames == {"x", "y"}

IdentToks == {Token("Ident", n) : n \in IdentNames}

IntToks == {Token("Int", "5")}

Alphabet ==
    {LetTok, ReturnTok, AssignTok, SemiTok, Token("Bang", "!"),
     Token("Illegal", "@")} \cup IdentToks \cup IntToks

\* every token sequence of at most MaxLen tokens
FreeInputs == UNION {[1..n -> Alphabet] : n \in 0..MaxLen}

\* `let = 5;`, the let statement without its identifier
LetWithoutIdent == <<LetTok, AssignTok, Token("Int", "5"), SemiTok>>

\* whole statements: let N = <int>;  let N = V;  return <int>;  N;  N
\* and the malformed `let = 5;`
StatementTexts ==
    {<<LetTok, n, AssignTok, v, SemiTok>> :
        n \in IdentToks, v \in IdentToks \cup IntToks}
    \cup {LetWithoutIdent}
    \cup {<<ReturnTok, v, SemiTok>> : v \in IntToks}
    \cup {<<n, SemiTok>> : n \in IdentToks}
    \cup {<<n>> : n \in IdentToks}

RECURSIVE Flatten(_)
Flatten(ss) == IF ss = <<>> THEN <<>> ELSE Head(ss) \o Flatten(Tail(ss))

\* every sequence of at most MaxStmts whole statements
StatementInputs ==
    {Flatten(ss) : ss \in UNION {[1..k -> StatementTexts] : k \in 0..MaxStmts}}

Inputs == FreeInputs \cup StatementInputs

(***************************************************************************)
(* The state machine: Parser::new, then parse_program step by step, then   *)
(* print_string of the Program it returned.                                *)
(***************************************************************************)
\* the parser's fields as one value
Parser ==
    [lexer |-> lexer, cur_token |-> cur_token, peek_token |-> peek_token,
     errors |-> errors]

\* the parser's fields after the step are those of p
SetParser(p) ==
    /\ lexer' = p.lexer
    /\ cur_token' = p.cur_token
    /\ peek_token' = p.peek_token
    /\ errors' = p.errors

Init ==
    \E input \in Inputs :
        LET p == New(Lexer_new(input))
        IN  /\ lexer = p.lexer
            /\ cur_token = p.cur_token
            /\ peek_token = p.peek_token
            /\ errors = p.errors
            /\ statements = <<>>
            /\ stmt = None
            /\ pc = "parse_program"
            /\ out = ""

\* parse_program's loop, cur_token a `let`: the let rule up to its while
\* loop; when the rule returned None, the loop's next_token follows
ParseLetStatement ==
    /\ pc = "parse_program"
    /\ cur_token.kind = "Let"
    /\ LET r == parse_let_statement(Parser)
       IN  IF r.entered
           THEN /\ SetParser(r.parser)
                /\ stmt' = r.statement
                /\ pc' = "let_while"
                /\ UNCHANGED <<statements, out>>
           ELSE /\ SetParser(next_token(r.parser))
                /\ statements' = push_statement(statements, r.statement)
                /\ UNCHANGED <<stmt, pc, out>>

\* line 118: the loop condition holds
LetWhileTest ==
    /\ pc = "let_while"
    /\ ~cur_token_is(Parser, "Semicolon")
    /\ pc' = "let_body"
    /\ UNCHANGED <<lexer, cur_token, peek_token, errors, statements, stmt, out>>

\* line 119: the loop body
LetWhileBody ==
    /\ pc = "let_body"
    /\ SetParser(next_token(Parser))
    /\ pc' = "let_while"
    /\ UNCHANGED <<statements, stmt, out>>

\* line 118 fails, the rule returns Some(stmt); parse_program pushes it and
\* advances
LetReturn ==
    /\ pc = "let_while"
    /\ cur_token_is(Parser, "Semicolon")
    /\ statements' = push_statement(statements, stmt)
    /\ SetParser(next_token(Parser))
    /\ stmt' = None
    /\ pc' = "parse_program"
    /\ UNCHANGED out

\* parse_program's loop, cur_token a `return`: the return rule up to its
\* while loop
ParseReturnStatement ==
    /\ pc = "parse_program"
    /\ cur_token.kind = "Return"
    /\ LET r == parse_return_statement(Parser)
       IN  /\ SetParser(r.parser)
           /\ stmt' = r.statement
    /\ pc' = "return_while"
    /\ UNCHANGED <<statements, out>>

\* line 134: the loop condition holds
ReturnWhileTest ==
    /\ pc = "return_while"
    /\ ~cur_token_is(Parser, "Semicolon")
    /\ pc' = "return_body"
    /\ UNCHANGED <<lexer, cur_token, peek_token, errors, statements, stmt, out>>

\* line 135: the loop body
ReturnWhileBody ==
    /\ pc = "return_body"
    /\ SetParser(next_token(Parser))
    /\ pc' = "return_while"
    /\ UNCHANGED <<statements, stmt, out>>

\* line 134 fails, the rule returns Some(stmt); parse_program pushes it and
\* advances
ReturnReturn ==
    /\ pc = "return_while"
    /\ cur_token_is(Parser, "Semicolon")
    /\ statements' = push_statement(statements, stmt)
    /\ SetParser(next_token(Parser))
    /\ stmt' = None
    /\ pc' = "parse_program"
    /\ UNCHANGED out

\* parse_program's loop, any other cur_token: the expression-statement
\* rule, the push and the loop's next_token
ParseExpressionStatement ==
    /\ pc = "parse_program"
    /\ cur_token.kind \notin {"Eof", "Let", "Return"}
    /\ LET r == parse_expression_statement(Parser)
       IN  /\ statements' = push_statement(statements, r.statement)
           /\ SetParser(next_token(r.parser))
    /\ UNCHANGED <<stmt, pc, out>>

\* cur_token is Eof at the loop head: parse_program returns Some(program)
ParseProgramReturn ==
    /\ pc = "parse_program"
    /\ cur_token.kind = "Eof"
    /\ pc' = "done"
    /\ UNCHANGED <<lexer, cur_token, peek_token, errors, statements, stmt, out>>

\* the caller renders the Program it got
PrintString ==
    /\ pc = "done"
    /\ out' = Program_print_string(statements)
    /\ pc' = "printed"
    /\ UNCHANGED <<lexer, cur_token, peek_token, errors, statements, stmt>>

Next ==
    \/ ParseLetStatement
    \/ LetWhileTest
    \/ LetWhileBody
    \/ LetReturn
    \/ ParseReturnStatement
    \/ ReturnWhileTest
    \/ ReturnWhileBody
    \/ ReturnReturn
    \/ ParseExpressionStatement
    \/ ParseProgramReturn
    \/ PrintString

Spec == Init /\ [][Next]_vars

\* the program is sequential: whenever it has a next step, it takes it
FairSpec == Spec /\ WF_vars(Next)

(***************************************************************************)
(* A second machine for the rendering alone: a Program built node by node  *)
(* (as test_print_string of ast.rs builds one), then print_string.         *)
(***************************************************************************)
IntegerLiteral(token, value) ==
    [node |-> "Integer", token |-> token, value |-> value]

ExpressionNodes ==
    {Identifier(t, t.literal) : t \in IdentToks}
    \cup {IntegerLiteral(Token("Int", "5"), 5)}

OptionExpressionNodes == {None} \cup {Some(e) : e \in ExpressionNodes}

StatementNodes ==
    {LetStatement(LetTok, Identifier(t, t.literal), v) :
        t \in IdentToks, v \in OptionExpressionNodes}
    \cup {ReturnStatement(ReturnTok, v) : v \in OptionExpressionNodes}
    \cup {ExpressionStatement(t, Some(Identifier(t, t.literal))) :
            t \in IdentToks}
    \cup {ExpressionStatement(Token("Int", "5"), v) :
            v \in {None, Some(IntegerLiteral(Token("Int", "5"), 5))}}

Programs == UNION {[1..k -> StatementNodes] : k \in 0..MaxAstLen}

AstInit ==
    \E program \in Programs :
        LET p == New(Lexer_new(<<>>))
        IN  /\ lexer = p.lexer
            /\ cur_token = p.cur_token
            /\ peek_token = p.peek_token
            /\ errors = p.errors
            /\ statements = program
            /\ stmt = None
            /\ pc = "done"
            /\ out = ""

AstNext == PrintString

AstSpec == AstInit /\ [][AstNext]_vars

(***************************************************************************)
(* Vocabulary of the properties.                                           *)
(***************************************************************************)
input == lexer.input

\* parse_program has returned
Returned == pc \in {"done", "printed"}

\* a let/return rule is in its while loop with the input exhausted: the
\* scanner yields Eof from here on, so the loop condition never fails
SpinsAtEof ==
    /\ pc \in {"let_while", "let_body", "return_while", "return_body"}
    /\ cur_token.kind = "Eof"

\* the i-th chunk of n tokens of a sequence
Chunk(seq, n, i) == SubSeq(seq, n * (i - 1) + 1, n * i)

\* inp is k statements `let <identifier> = <integer> ;`
IsLetIntSeq(inp) ==
    /\ Len(inp) % 5 = 0
    /\ \A i \in 1..(Len(inp) \div 5) :
          LET c == Chunk(inp, 5, i)
          IN  /\ c[1] = LetTok
              /\ c[2].kind = "Ident"
              /\ c[3] = AssignTok
              /\ c[4].kind = "Int"
              /\ c[5] = SemiTok

\* inp is k statements `return <integer> ;`
IsReturnIntSeq(inp) ==
    /\ Len(inp) % 3 = 0
    /\ \A i \in 1..(Len(inp) \div 3) :
          LET c == Chunk(inp, 3, i)
          IN  /\ c[1] = ReturnTok
              /\ c[2].kind = "Int"
              /\ c[3] = SemiTok

\* inp is `let N = V;` for identifiers N and V
IsLetIdent(inp) ==
    /\ Len(inp) = 5
    /\ inp[1] = LetTok
    /\ inp[2].kind = "Ident"
    /\ inp[3] = AssignTok
    /\ inp[4].kind = "Ident"
    /\ inp[5] = SemiTok

\* the number of Let nodes of a statement list
LetNodes(stmts) == Cardinality({i \in 1..Len(stmts) : stmts[i].node = "Let"})

\* token i is a `let` and the token after it is no identifier
LetWithoutIdentAt(inp, i) ==
    /\ inp[i].kind = "Let"
    /\ (i = Len(inp) \/ inp[i + 1].kind # "Ident")

\* every let/return after token i has a `;` somewhere after it
LaterStatementsTerminated(inp, i) ==
    \A j \in (i + 1)..Len(inp) :
        inp[j].kind \in {"Let", "Return"} =>
            \E k \in (j + 1)..Len(inp) : inp[k].kind = "Semicolon"

\* the `let` tokens that an identifier follows
LetsWithIdent(inp) ==
    {i \in 1..Len(inp) :
        inp[i].kind = "Let" /\ i < Len(inp) /\ inp[i + 1].kind = "Ident"}

\* inp is `n;` or `n` for an identifier n
IsIdentStatement(inp) ==
    /\ Len(inp) \in {1, 2}
    /\ inp[1].kind = "Ident"
    /\ Len(inp) = 2 => inp[2] = SemiTok

\* s is a Let node
IsLet(s) == s.node = "Let"

\* s is a Let node whose value is an Identifier
IsLetOfIdentifier(s) ==
    /\ s.node = "Let"
    /\ s.value # None
    /\ s.value[1].node = "IdentifierNode"

\* what a statement is to render as
Rendering(s) ==
    IF IsLetOfIdentifier(s)
    THEN "let " \o s.name.value \o " = " \o s.value[1].value \o ";"
    ELSE StatementNode_print_string(s)

\* the renderings of the statements, one after another, in order
RECURSIVE Concatenation(_)
Concatenation(stmts) ==
    IF stmts = <<>>
    THEN ""
    ELSE Rendering(Head(stmts)) \o Concatenation(Tail(stmts))

\* the message the specification gives for a failed lookahead assertion
ExpectedMessage(X, Y) ==
    "expected next token to be " \o Display(X) \o ", got " \o Display(Y)
    \o " instead"

\* what expect_peek(X) is to do on parser p
ExpectPeekContract(p, X) ==
    LET r == expect_peek(p, X)
    IN  IF p.peek_token.kind # X
        THEN /\ ~r.ok
             /\ r.parser.errors
                   = Append(p.errors, ExpectedMessage(X, p.peek_token.kind))
             /\ r.parser.cur_token = p.cur_token
             /\ r.parser.peek_token = p.peek_token
        ELSE /\ r.ok
             /\ r.parser.cur_token = p.peek_token
             /\ r.parser.peek_token = Lexer_next_token(p.lexer).token
             /\ r.parser.errors = p.errors

(***************************************************************************)
(* C1.  parse_program terminates on every finite token stream: whatever    *)
(* the input, also one whose last let/return statement has no `;` before   *)
(* the end of input, parse_program eventually returns.                     *)
(* The code does not: on `let x = 5` the loop of line 118 runs forever.    *)
(***************************************************************************)
C1_ParseProgramTerminates == <>Returned

(***************************************************************************)
(* C2.  For an input in which a `let` token is immediately followed by a   *)
(* token that is not an identifier, and every later let/return is          *)
(* terminated by a `;`: parse_program returns (no rule spins at the end of *)
(* input), errors() then holds at least one message, and the Program holds *)
(* no more Let nodes than the input has `let` tokens followed by an        *)
(* identifier (none comes from that `let`).                                *)
(* The code reports nothing on `return let = 5;`.                          *)
(***************************************************************************)
C2_LetWithoutIdentReported ==
    (\E i \in 1..Len(input) :
        LetWithoutIdentAt(input, i) /\ LaterStatementsTerminated(input, i))
    => /\ ~SpinsAtEof
       /\ Returned =>
            /\ Len(errors) >= 1
            /\ LetNodes(statements) <= Cardinality(LetsWithIdent(input))

(***************************************************************************)
(* C3.  For an input of k statements `let <identifier> = <integer> ;`:     *)
(* no error is ever recorded, no rule spins at the end of input, and the   *)
(* Program returned holds exactly k statements, each a Let node of token   *)
(* literal "let", the i-th with name value and name token literal equal    *)
(* to the i-th identifier.                                                 *)
(***************************************************************************)
C3_LetStatements ==
    IsLetIntSeq(input) =>
        /\ errors = <<>>
        /\ ~SpinsAtEof
        /\ Returned =>
            /\ Len(statements) = Len(input) \div 5
            /\ \A i \in 1..Len(statements) :
                  /\ statements[i].node = "Let"
                  /\ statements[i].token.literal = "let"
                  /\ statements[i].name.value = Chunk(input, 5, i)[2].literal
                  /\ statements[i].name.token.literal
                        = Chunk(input, 5, i)[2].literal

\* two let statements of different names have been parsed
C3_Witness ==
    /\ pc = "done"
    /\ IsLetIntSeq(input)
    /\ Len(input) = 10
    /\ input[2].literal = "x"
    /\ input[7].literal = "y"
    /\ Len(statements) = 2

(***************************************************************************)
(* C4.  For an input of k statements `return <integer> ;`: no error is     *)
(* ever recorded, no rule spins at the end of input, and the Program       *)
(* returned holds exactly k statements, each a Return node of token        *)
(* literal "return".                                                       *)
(***************************************************************************)
C4_ReturnStatements ==
    IsReturnIntSeq(input) =>
        /\ errors = <<>>
        /\ ~SpinsAtEof
        /\ Returned =>
            /\ Len(statements) = Len(input) \div 3
            /\ \A i \in 1..Len(statements) :
                  /\ statements[i].node = "Return"
                  /\ statements[i].token.literal = "return"

\* three return statements have been parsed
C4_Witness ==
    /\ pc = "done"
    /\ IsReturnIntSeq(input)
    /\ Len(input) = 9
    /\ Len(statements) = 3

(***************************************************************************)
(* C5.  For an identifier n, the input `n;` and the input `n` each give a  *)
(* Program of exactly one statement, an expression statement whose         *)
(* expression is present and is an Identifier of value n and token         *)
(* literal n.                                                              *)
(***************************************************************************)
C5_IdentifierExpression ==
    (IsIdentStatement(input) /\ Returned) =>
        /\ Len(statements) = 1
        /\ statements[1].node = "Expression"
        /\ statements[1].expression # None
        /\ statements[1].expression[1].node = "IdentifierNode"
        /\ statements[1].expression[1].value = input[1].literal
        /\ statements[1].expression[1].token.literal = input[1].literal

\* `y;` has been parsed
C5_Witness ==
    /\ pc = "done"
    /\ input = <<Token("Ident", "y"), SemiTok>>
    /\ Len(statements) = 1

(***************************************************************************)
(* C6.  Whenever parse_expression runs on a current token whose kind has   *)
(* no prefix rule, it returns no expression and appends one message to     *)
(* the error list; so errors() is not empty once an input with such a      *)
(* token in expression position has been parsed (here: an input without    *)
(* let/return, every token of which other than `;` is the current token    *)
(* of a parse_expression call).                                            *)
(* The code returns None and appends nothing: `5;` leaves errors() empty.  *)
(***************************************************************************)
C6_NoPrefixRuleReported ==
    /\ (/\ pc = "parse_program"
        /\ cur_token.kind \notin {"Eof", "Let", "Return"}
        /\ cur_token.kind \notin prefix_parse_fns)
       => LET r == parse_expression(Parser)
          IN  /\ r.expression = None
              /\ Len(r.parser.errors) = Len(errors) + 1
    /\ (/\ Returned
        /\ \A i \in 1..Len(input) : input[i].kind \notin {"Let", "Return"}
        /\ \E i \in 1..Len(input) :
              input[i].kind \notin prefix_parse_fns \cup {"Semicolon"})
       => errors # <<>>

(***************************************************************************)
(* C7.  A statement that fails to parse contributes no node: the Program   *)
(* returned holds no expression statement whose expression is absent (so   *)
(* the tokens left over by a failed let statement add no node); and the    *)
(* well-formed statements after a failed one still appear, in source       *)
(* order: after `let = 5;` followed by k statements `let N = <integer>;`   *)
(* the Let nodes of the Program are those k, in order.                     *)
(* The code appends nodes of absent expression: `let = 5;` gives two.      *)
(***************************************************************************)
C7_FailedStatementAddsNoNode ==
    Returned =>
        /\ \A i \in 1..Len(statements) :
              statements[i].node = "Expression" =>
                  statements[i].expression # None
        /\ (/\ Len(input) >= 4
            /\ SubSeq(input, 1, 4) = LetWithoutIdent
            /\ IsLetIntSeq(SubSeq(input, 5, Len(input))))
           => LET rest == SubSeq(input, 5, Len(input))
                  lets == SelectSeq(statements, IsLet)
              IN  /\ Len(lets) = Len(rest) \div 5
                  /\ \A i \in 1..Len(lets) :
                        lets[i].name.value = Chunk(rest, 5, i)[2].literal

(***************************************************************************)
(* C8.  Parsing `let N = V;`, N and V identifiers, gives a Program of      *)
(* exactly one Let statement whose value is the Identifier V and whose     *)
(* rendering is the input text "let N = V;".                               *)
(* The code never sets the value: the rendering is "let N = ;".            *)
(***************************************************************************)
C8_LetRoundTrip ==
    (IsLetIdent(input) /\ pc = "printed") =>
        /\ Len(statements) = 1
        /\ statements[1].node = "Let"
        /\ statements[1].value
              = Some(Identifier(input[4], input[4].literal))
        /\ out = "let " \o input[2].literal \o " = "
                 \o input[4].literal \o ";"

(***************************************************************************)
(* C9.  print_string of a Let statement of name N and Identifier value V   *)
(* is exactly "let N = V;", and print_string of a Program is the           *)
(* concatenation, in statement order, of the renderings of its statements. *)
(***************************************************************************)
C9_Rendering == pc = "printed" => out = Concatenation(statements)

\* a Program of two different Let statements of Identifier value, rendered
C9_Witness ==
    /\ pc = "printed"
    /\ Len(statements) = 2
    /\ IsLetOfIdentifier(statements[1])
    /\ IsLetOfIdentifier(statements[2])
    /\ out = "let x = y;let y = x;"

(***************************************************************************)
(* C10.  expect_peek as the let rule uses it (expecting Ident, then        *)
(* Assign): when the lookahead's kind differs from the expected kind X,    *)
(* it appends exactly the message "expected next token to be X, got Y      *)
(* instead", Y the lookahead's kind, leaves cur_token and peek_token       *)
(* unchanged, and the let rule returns no statement; when it matches, the  *)
(* parser advances by one token and the error list is unchanged.  So       *)
(* every message of the error list has that form.                          *)
(* The code's message ends in "intead".                                    *)
(***************************************************************************)
C10_ExpectPeek ==
    /\ (pc = "parse_program" /\ cur_token.kind = "Let") =>
          LET r1 == expect_peek(Parser, "Ident")
              r2 == expect_peek(r1.parser, "Assign")
          IN  /\ ExpectPeekContract(Parser, "Ident")
              /\ r1.ok => ExpectPeekContract(r1.parser, "Assign")
              /\ (~r1.ok \/ ~r2.ok) =>
                    parse_let_statement(Parser).statement = None
    /\ \A i \in 1..Len(errors) :
          \E X \in {"Ident", "Assign"}, Y \in TokenKind :
              errors[i] = ExpectedMessage(X, Y)

\* the k-th token the scanner produces: the input, then Eof forever
Stream(inp, k) == IF k <= Len(inp) THEN inp[k] ELSE EofToken

\* parser p stands at position i of the scanner's output: cur_token is its
\* i-th token, peek_token its (i+1)-th, and the scanner has handed out
\* exactly the tokens up to there
LookaheadAt(p, i) ==
    /\ p.cur_token = Stream(p.lexer.input, i)
    /\ p.peek_token = Stream(p.lexer.input, i + 1)
    /\ p.lexer.position
          = IF i + 1 <= Len(p.lexer.input) THEN i + 1 ELSE Len(p.lexer.input)

\* the positions the parser's fields are consistent with, Len(input) + 1
\* standing for every position past the end of input
Positions == {i \in 1..(Len(input) + 1) : LookaheadAt(Parser, i)}

\* the position the parser stands at
Position == CHOOSE i \in Positions : TRUE

\* in every state: Parser::new leaves the parser at position 1; the parser
\* stands at exactly one position i; one more next_token call puts it at
\* position i + 1; at Eof the lookahead is Eof and the call changes nothing
LookaheadInvariant ==
    /\ LookaheadAt(New(Lexer_new(input)), 1)
    /\ Cardinality(Positions) = 1
    /\ LookaheadAt(next_token(Parser), Position + 1)
    /\ cur_token.kind = "Eof" =>
          /\ peek_token.kind = "Eof"
          /\ next_token(Parser) = Parser

\* in every step: the position never goes back and moves by the number of
\* next_token calls of the step (at most three, in the let rule), and a
\* cur_token that is Eof stays Eof, with its lookahead
LookaheadStep ==
    /\ Position' \in Position..(Position + 3)
    /\ lexer'.input = lexer.input
    /\ cur_token.kind = "Eof" =>
          /\ cur_token'.kind = "Eof"
          /\ peek_token'.kind = "Eof"

(***************************************************************************)
(* C11.  One-token lookahead: after Parser::new and after every            *)
(* next_token call, cur_token is the i-th token the scanner produces (the  *)
(* input, then Eof forever) and peek_token the (i+1)-th, for a position i  *)
(* that is 1 after Parser::new and grows by exactly one per next_token     *)
(* call; no token is skipped or delivered twice; and once cur_token is Eof *)
(* both cur_token and peek_token stay Eof.                                 *)
(***************************************************************************)
C11_OneTokenLookahead == []LookaheadInvariant /\ [][LookaheadStep]_vars

\* all four tokens of an input have been delivered, cur_token and
\* peek_token are Eof, and the return rule is about to call next_token again
C11_Witness ==
    /\ pc = "return_body"
    /\ Len(input) = 4
    /\ lexer.position = 4
    /\ cur_token = EofToken
    /\ peek_token = EofToken

====
